---- MODULE Spec2Model ----
(***************************************************************************)
(* go-volley: the Transport (coordinator) and StraddleConn (connection     *)
(* wrapper) of volley.go, as a state machine of interleaved atomic steps.  *)
(*                                                                         *)
(* One client thread per connection dials, writes and closes; one          *)
(* background goroutine per wrapper runs waitForFire; Fire and Wait are    *)
(* called from their own threads.  Every atomic operation of the code      *)
(* (atomic.Load/Add/CAS, a channel operation, a mutex acquire) is a step   *)
(* of its own, except where the text of an action says that it joins       *)
(* operations no other thread can tell apart.                              *)
(*                                                                         *)
(* Bytes are data the code never inspects: the i-th byte handed to Write   *)
(* on a connection has the value i, so that loss, duplication and          *)
(* reordering on the wire are visible.                                     *)
(***************************************************************************)
EXTENDS Integers, Sequences, FiniteSets, TLC

\* ---------------------------------------------------------------- bounds
NConns == 2       \* connections (client threads)
MaxLen == 2       \* longest slice handed to one Write
MaxWrites == 2    \* Write calls per connection
NFire == 2        \* threads calling Fire
NWaiters == 2     \* threads calling Wait
MaxResets == 1    \* Reset calls
MaxCloses == 2    \* Close calls per connection

NotifyCap == 1

Conns == 1..NConns
Firers == 1..NFire
Waiters == 1..NWaiters
Wants == 0..NConns

VARIABLES
  \* Transport
  dialStartCount, dialInflight, aliveCount, heldCount, fired,
  fireChAtom,      \* the current broadcast channel (its identity)
  fireChClosed,    \* the broadcast channels that have been closed
  notifyCh,        \* number of tokens in the buffered channel notifyCh
  \* StraddleConn / net.Conn, per connection
  kind,            \* "none" | "straddle" (wrapped) | "raw" (dialed on the fired fast path)
  fireCh, closeCh, held, hasHeld, isCounted,
  mu,              \* TRUE while the client thread holds sc.mu
  wire,            \* bytes handed to the underlying net.Conn's Write, in order
  connClosed,      \* the underlying net.Conn is closed
  broken,          \* the underlying net.Conn fails every write
  \* threads
  pc, b, toSend, ret,   \* client thread: position, Write's argument, local, last return
  bg,                   \* background goroutine waitForFire
  fpc,                  \* Fire callers
  wpc, want, rd, ctxDone,  \* Wait callers: position, argument, loaded counters, ctx.Done()
  \* history
  nsub,            \* bytes handed to Write so far
  nwr,             \* Write calls returned so far
  accepted,        \* bytes of the Write calls that returned (len(b), nil)
  firedAtCall,     \* value of fired when the running/last Write was called
  pre,             \* wire, hasHeld, held when the running/last Write was called
  panicked,        \* a closed channel was closed again
  metEver,         \* per Wait call: the quorum held of the counters at some instant of the call
  metCheck,        \* per Wait call: the predicate of check held of the counters at some instant
  born,            \* per connection: the broadcast channel and the value of fired when its dial began
  acct             \* per wrapper: heldCount increments and decrements made for it, tasks spawned, Close calls

tvars == <<dialStartCount, dialInflight, aliveCount, heldCount, fired,
           fireChAtom, fireChClosed, notifyCh>>
cvars == <<kind, fireCh, closeCh, held, hasHeld, isCounted, mu, wire, connClosed, broken>>
lvars == <<pc, b, toSend, ret>>
wvars == <<wpc, want, rd, ctxDone>>
hvars == <<nsub, nwr, accepted, firedAtCall, pre, panicked>>
vars == <<tvars, cvars, lvars, bg, fpc, wvars, hvars, metEver, metCheck, born, acct>>

NoErr == "nil"
IOErr == "io error"

Range(s) == {s[i] : i \in 1..Len(s)}
Front(s) == SubSeq(s, 1, Len(s) - 1)
Last(s) == s[Len(s)]

\* ------------------------------------------------------------------ Init
Init ==
  /\ dialStartCount = 0 /\ dialInflight = 0 /\ aliveCount = 0 /\ heldCount = 0
  /\ fired = 0
  /\ fireChAtom = 1
  /\ fireChClosed = {}
  /\ notifyCh = 0
  /\ kind = [c \in Conns |-> "none"]
  /\ fireCh = [c \in Conns |-> 0]
  /\ closeCh = [c \in Conns |-> FALSE]
  /\ held = [c \in Conns |-> 0]
  /\ hasHeld = [c \in Conns |-> FALSE]
  /\ isCounted = [c \in Conns |-> FALSE]
  /\ mu = [c \in Conns |-> FALSE]
  /\ wire = [c \in Conns |-> <<>>]
  /\ connClosed = [c \in Conns |-> FALSE]
  /\ broken = [c \in Conns |-> FALSE]
  /\ pc = [c \in Conns |-> "new"]
  /\ b = [c \in Conns |-> <<>>]
  /\ toSend = [c \in Conns |-> <<>>]
  /\ ret = [c \in Conns |-> [n |-> 0, err |-> NoErr]]
  /\ bg = [c \in Conns |-> "none"]
  /\ fpc = [f \in Firers |-> "idle"]
  /\ wpc = [w \in Waiters |-> "idle"]
  /\ want = [w \in Waiters |-> 0]
  /\ rd = [w \in Waiters |-> [start |-> 0, inflight |-> 0, held |-> 0, alive |-> 0]]
  /\ ctxDone = [w \in Waiters |-> FALSE]
  /\ nsub = [c \in Conns |-> 0]
  /\ nwr = [c \in Conns |-> 0]
  /\ accepted = [c \in Conns |-> <<>>]
  /\ firedAtCall = [c \in Conns |-> 0]
  /\ pre = [c \in Conns |-> [wire |-> <<>>, hasHeld |-> FALSE, held |-> 0]]
  /\ panicked = FALSE
  /\ metEver = [w \in Waiters |-> FALSE]
  /\ metCheck = [w \in Waiters |-> FALSE]
  /\ born = [c \in Conns |-> [round |-> 0, fired |-> 0]]
  /\ acct = [c \in Conns |-> [inc |-> 0, dec |-> 0, spawn |-> 0, closes |-> 0]]

\* ------------------------------------------------------------- Transport
\* tryNotify: a non-blocking send on the buffered channel notifyCh.
tryNotify(n) == IF n < NotifyCap THEN n + 1 ELSE n

\* The predicate of Wait's closure check, over the four loaded values.
check(r, wn) ==
  IF r.start < wn THEN FALSE
  ELSE IF r.inflight > 0 THEN FALSE
  ELSE IF r.alive = 0 THEN TRUE
  ELSE r.held = r.alive

\* The four counters as they are at one instant.
Counters == [start |-> dialStartCount, inflight |-> dialInflight,
             held |-> heldCount, alive |-> aliveCount]

\* The quorum as the doc comment of Wait states it.
QuorumDoc(r, wn) ==
  /\ r.start >= wn
  /\ r.inflight = 0
  /\ (r.held >= wn \/ r.held = r.alive)

\* History: during a Wait call, whether the counters satisfied the quorum (as
\* checked or as documented) at some instant of the call.
Track ==
  /\ metEver' = [w \in Waiters |->
                   metEver[w] \/ ( /\ wpc'[w] \notin {"idle", "nil", "err"}
                                   /\ (check(Counters', want'[w]) \/ QuorumDoc(Counters', want'[w])) )]
  /\ metCheck' = [w \in Waiters |->
                    metCheck[w] \/ ( /\ wpc'[w] \notin {"idle", "nil", "err"}
                                     /\ check(Counters', want'[w]) )]

\* (mutant) the dial tracks and wraps whatever the value of fired.
DialBeginTracks(c) ==
  /\ pc[c] = "new"
  /\ pc' = [pc EXCEPT ![c] = "dstart"]
  /\ UNCHANGED kind
  /\ UNCHANGED <<tvars, fireCh, closeCh, held, hasHeld, isCounted, mu, wire, connClosed,
                 broken, b, toSend, ret, bg, fpc, wvars, hvars>>
  /\ UNCHANGED <<metEver, metCheck>>
  /\ born' = [born EXCEPT ![c] = [round |-> fireChAtom, fired |-> fired]]
  /\ UNCHANGED acct

\* -- dialing: DialContext / DialTLSContext and trackDial -------------------
\* The fast-path load of fired.  Fired: the dial bypasses all tracking and
\* returns the dialer's result (a raw connection or an error).
DialBegin(c) ==
  /\ pc[c] = "new"
  /\ IF fired = 1
       THEN \E ok \in BOOLEAN :
              /\ pc' = [pc EXCEPT ![c] = IF ok THEN "ready" ELSE "failed"]
              /\ kind' = [kind EXCEPT ![c] = IF ok THEN "raw" ELSE "none"]
       ELSE /\ pc' = [pc EXCEPT ![c] = "dstart"]
            /\ UNCHANGED kind
  /\ UNCHANGED <<tvars, fireCh, closeCh, held, hasHeld, isCounted, mu, wire, connClosed,
                 broken, b, toSend, ret, bg, fpc, wvars, hvars>>
  /\ UNCHANGED <<metEver, metCheck>>
  /\ born' = [born EXCEPT ![c] = [round |-> fireChAtom, fired |-> fired]]
  /\ UNCHANGED acct

\* trackDial 1: atomic.AddInt32(&t.dialStartCount, 1)
DialStart(c) ==
  /\ pc[c] = "dstart"
  /\ dialStartCount' = dialStartCount + 1
  /\ pc' = [pc EXCEPT ![c] = "dinflight"]
  /\ UNCHANGED <<dialInflight, aliveCount, heldCount, fired, fireChAtom, fireChClosed,
                 notifyCh, cvars, b, toSend, ret, bg, fpc, wvars, hvars>>
  /\ Track
  /\ UNCHANGED <<born, acct>>

\* trackDial 2: atomic.AddInt32(&t.dialInflight, 1)
DialInflight(c) ==
  /\ pc[c] = "dinflight"
  /\ dialInflight' = dialInflight + 1
  /\ pc' = [pc EXCEPT ![c] = "dialing"]
  /\ UNCHANGED <<dialStartCount, aliveCount, heldCount, fired, fireChAtom, fireChClosed,
                 notifyCh, cvars, b, toSend, ret, bg, fpc, wvars, hvars>>
  /\ Track
  /\ UNCHANGED <<born, acct>>

\* (mutant) a failed dial leaves dialInflight as it is.
DialDoneLeaks(c) ==
  /\ pc[c] = "dialing"
  /\ \E ok \in BOOLEAN :
       /\ pc' = [pc EXCEPT ![c] = IF ok THEN "wrap" ELSE "dfail"]
       /\ dialInflight' = IF ok THEN dialInflight - 1 ELSE dialInflight
  /\ UNCHANGED <<dialStartCount, aliveCount, heldCount, fired, fireChAtom, fireChClosed,
                 notifyCh, cvars, b, toSend, ret, bg, fpc, wvars, hvars>>
  /\ Track
  /\ UNCHANGED <<born, acct>>

\* dialFunc returns (a connection or an error); trackDial 3:
\* atomic.AddInt32(&t.dialInflight, -1)
DialDone(c) ==
  /\ pc[c] = "dialing"
  /\ dialInflight' = dialInflight - 1
  /\ \E ok \in BOOLEAN : pc' = [pc EXCEPT ![c] = IF ok THEN "wrap" ELSE "dfail"]
  /\ UNCHANGED <<dialStartCount, aliveCount, heldCount, fired, fireChAtom, fireChClosed,
                 notifyCh, cvars, b, toSend, ret, bg, fpc, wvars, hvars>>
  /\ Track
  /\ UNCHANGED <<born, acct>>

\* err != nil: t.tryNotify(); return nil, err
DialFail(c) ==
  /\ pc[c] = "dfail"
  /\ notifyCh' = tryNotify(notifyCh)
  /\ pc' = [pc EXCEPT ![c] = "failed"]
  /\ UNCHANGED <<dialStartCount, dialInflight, aliveCount, heldCount, fired, fireChAtom,
                 fireChClosed, cvars, b, toSend, ret, bg, fpc, wvars, hvars>>
  /\ UNCHANGED <<metEver, metCheck>>
  /\ UNCHANGED <<born, acct>>

\* wrapConn: atomic.AddInt32(&t.aliveCount, 1)
WrapAlive(c) ==
  /\ pc[c] = "wrap"
  /\ aliveCount' = aliveCount + 1
  /\ pc' = [pc EXCEPT ![c] = "wrapped"]
  /\ UNCHANGED <<dialStartCount, dialInflight, heldCount, fired, fireChAtom, fireChClosed,
                 notifyCh, cvars, b, toSend, ret, bg, fpc, wvars, hvars>>
  /\ Track
  /\ UNCHANGED <<born, acct>>

\* wrapConn: t.tryNotify(); ch := t.fireChAtom.Load(); return &StraddleConn{...}
\* (the load is joined to the notification: only Reset stores fireChAtom)
WrapConn(c) ==
  /\ pc[c] = "wrapped"
  /\ notifyCh' = tryNotify(notifyCh)
  /\ kind' = [kind EXCEPT ![c] = "straddle"]
  /\ fireCh' = [fireCh EXCEPT ![c] = fireChAtom]
  /\ pc' = [pc EXCEPT ![c] = "ready"]
  /\ UNCHANGED <<dialStartCount, dialInflight, aliveCount, heldCount, fired, fireChAtom,
                 fireChClosed, closeCh, held, hasHeld, isCounted, mu, wire, connClosed,
                 broken, b, toSend, ret, bg, fpc, wvars, hvars>>
  /\ UNCHANGED <<metEver, metCheck>>
  /\ UNCHANGED <<born, acct>>

\* -- net.Conn ---------------------------------------------------------------
\* sc.Conn.Write(bytes): the bytes are handed to the net.Conn in this order.
\* A broken connection fails the call (WriteResult) and delivers none of them.
ConnWrite(w, bytes) == w \o bytes

\* The peer or the network breaks an established connection.
ConnBreak(c) ==
  /\ kind[c] # "none" /\ ~broken[c] /\ ~connClosed[c]
  /\ broken' = [broken EXCEPT ![c] = TRUE]
  /\ UNCHANGED <<tvars, kind, fireCh, closeCh, held, hasHeld, isCounted, mu, wire,
                 connClosed, lvars, bg, fpc, wvars, hvars>>
  /\ UNCHANGED <<metEver, metCheck>>
  /\ UNCHANGED <<born, acct>>

\* -- StraddleConn.Write ------------------------------------------------------
\* What a returning Write leaves in the history: one more call returned, and
\* its bytes accepted when it returned (len(b), nil).
Returned(c, bytes, r) ==
  /\ ret' = [ret EXCEPT ![c] = r]
  /\ nwr' = [nwr EXCEPT ![c] = @ + 1]
  /\ accepted' = [accepted EXCEPT ![c] =
                    IF r.err = NoErr /\ r.n = Len(bytes) THEN @ \o bytes ELSE @]

\* The locals of a Write call are gone when it returns.
NoPre == [wire |-> <<>>, hasHeld |-> FALSE, held |-> 0]
Forget(c) ==
  /\ b' = [b EXCEPT ![c] = <<>>]
  /\ toSend' = [toSend EXCEPT ![c] = <<>>]
  /\ firedAtCall' = [firedAtCall EXCEPT ![c] = 0]
  /\ pre' = [pre EXCEPT ![c] = NoPre]

\* The result of the net.Conn's Write of `bytes`.
WriteResult(brk, bytes) ==
  IF brk THEN [n |-> 0, err |-> IOErr] ELSE [n |-> Len(bytes), err |-> NoErr]

\* Write is called with a slice of n fresh bytes.  len(b) == 0 returns (0, nil);
\* a raw connection (dialed on the fired fast path) is the net.Conn itself;
\* otherwise the hot-path load of fired decides between the bypass and the lock.
WriteBegin(c, n) ==
  /\ pc[c] = "ready" /\ kind[c] # "none" /\ nwr[c] < MaxWrites
  /\ LET bytes == [i \in 1..n |-> nsub[c] + i] IN
     /\ nsub' = [nsub EXCEPT ![c] = @ + n]
     /\ IF n = 0
          THEN /\ Returned(c, bytes, [n |-> 0, err |-> NoErr])
               /\ UNCHANGED <<pc, wire, b, firedAtCall, pre>>
          ELSE IF kind[c] = "raw"
          THEN /\ wire' = [wire EXCEPT ![c] = ConnWrite(@, bytes)]
               /\ Returned(c, bytes, WriteResult(broken[c], bytes))
               /\ UNCHANGED <<pc, b, firedAtCall, pre>>
          ELSE /\ pc' = [pc EXCEPT ![c] = IF fired = 1 THEN "whot" ELSE "wlock"]
               /\ b' = [b EXCEPT ![c] = bytes]
               /\ firedAtCall' = [firedAtCall EXCEPT ![c] = fired]
               /\ pre' = [pre EXCEPT ![c] =
                            [wire |-> wire[c], hasHeld |-> hasHeld[c], held |-> held[c]]]
               /\ UNCHANGED <<wire, ret, nwr, accepted>>
  /\ UNCHANGED <<tvars, kind, fireCh, closeCh, held, hasHeld, isCounted, mu, connClosed,
                 broken, toSend, bg, fpc, wvars, panicked>>
  /\ UNCHANGED <<metEver, metCheck>>
  /\ UNCHANGED <<born, acct>>

\* (mutant) the hot path buffers like the unfired path: all but the last byte
\* go out, the last byte is withheld.
WriteHotWithholds(c) ==
  /\ pc[c] = "whot"
  /\ wire' = [wire EXCEPT ![c] = ConnWrite(@, Front(b[c]))]
  /\ held' = [held EXCEPT ![c] = Last(b[c])]
  /\ hasHeld' = [hasHeld EXCEPT ![c] = TRUE]
  /\ Returned(c, b[c], WriteResult(broken[c], b[c]))
  /\ Forget(c)
  /\ pc' = [pc EXCEPT ![c] = "ready"]
  /\ UNCHANGED <<tvars, kind, fireCh, closeCh, isCounted, mu, connClosed,
                 broken, bg, fpc, wvars, nsub, panicked>>
  /\ UNCHANGED <<metEver, metCheck>>
  /\ UNCHANGED <<born, acct>>

\* Hot path: return sc.Conn.Write(b), without the lock.
WriteHot(c) ==
  /\ pc[c] = "whot"
  /\ wire' = [wire EXCEPT ![c] = ConnWrite(@, b[c])]
  /\ Returned(c, b[c], WriteResult(broken[c], b[c]))
  /\ Forget(c)
  /\ pc' = [pc EXCEPT ![c] = "ready"]
  /\ UNCHANGED <<tvars, kind, fireCh, closeCh, held, hasHeld, isCounted, mu, connClosed,
                 broken, bg, fpc, wvars, nsub, panicked>>
  /\ UNCHANGED <<metEver, metCheck>>
  /\ UNCHANGED <<born, acct>>

\* sc.mu.Lock()
WriteLock(c) ==
  /\ pc[c] = "wlock" /\ ~mu[c]
  /\ mu' = [mu EXCEPT ![c] = TRUE]
  /\ pc' = [pc EXCEPT ![c] = "wdc"]
  /\ UNCHANGED <<tvars, kind, fireCh, closeCh, held, hasHeld, isCounted, wire, connClosed,
                 broken, b, toSend, ret, bg, fpc, wvars, hvars>>
  /\ UNCHANGED <<metEver, metCheck>>
  /\ UNCHANGED <<born, acct>>

\* Double check under the lock.  Fired: write the withheld byte (its error is
\* dropped), forward b, unlock and return.  Not fired: go on to buffer.
WriteDoubleCheck(c) ==
  /\ pc[c] = "wdc"
  /\ IF fired = 1
       THEN /\ wire' = [wire EXCEPT ![c] =
                          ConnWrite(ConnWrite(@, IF hasHeld[c] THEN <<held[c]>> ELSE <<>>),
                                    b[c])]
            /\ hasHeld' = [hasHeld EXCEPT ![c] = FALSE]
            /\ Returned(c, b[c], WriteResult(broken[c], b[c]))
            /\ Forget(c)
            /\ mu' = [mu EXCEPT ![c] = FALSE]
            /\ pc' = [pc EXCEPT ![c] = "ready"]
       ELSE /\ pc' = [pc EXCEPT ![c] = "wbuf"]
            /\ UNCHANGED <<wire, hasHeld, mu, ret, nwr, accepted, b, toSend,
                           firedAtCall, pre>>
  /\ UNCHANGED <<tvars, kind, fireCh, closeCh, held, isCounted, connClosed, broken,
                 bg, fpc, wvars, nsub, panicked>>
  /\ UNCHANGED <<metEver, metCheck>>
  /\ UNCHANGED <<born, acct>>

\* (mutant) the buffer logic sends the whole payload and still keeps its last byte.
WriteBufferSendsAll(c) ==
  /\ pc[c] = "wbuf"
  /\ LET payload == (IF hasHeld[c] THEN <<held[c]>> ELSE <<>>) \o b[c] IN
     /\ held' = [held EXCEPT ![c] = Last(payload)]
     /\ hasHeld' = [hasHeld EXCEPT ![c] = TRUE]
     /\ toSend' = [toSend EXCEPT ![c] = payload]
  /\ IF ~isCounted[c]
       THEN /\ heldCount' = heldCount + 1
            /\ isCounted' = [isCounted EXCEPT ![c] = TRUE]
            /\ pc' = [pc EXCEPT ![c] = "wspawn"]
       ELSE /\ pc' = [pc EXCEPT ![c] = "wsend"]
            /\ UNCHANGED <<heldCount, isCounted>>
  /\ UNCHANGED <<dialStartCount, dialInflight, aliveCount, fired, fireChAtom, fireChClosed,
                 notifyCh, kind, fireCh, closeCh, mu, wire, connClosed, broken, b, ret,
                 bg, fpc, wvars, hvars>>
  /\ Track
  /\ acct' = [acct EXCEPT ![c].inc = IF isCounted[c] THEN @ ELSE @ + 1]
  /\ UNCHANGED born

\* Buffer logic: payload = withheld byte (if any) + b; keep its last byte; the
\* first time, atomic.AddInt32(&sc.owner.heldCount, 1) and isCounted = true.
WriteBuffer(c) ==
  /\ pc[c] = "wbuf"
  /\ LET payload == (IF hasHeld[c] THEN <<held[c]>> ELSE <<>>) \o b[c] IN
     /\ held' = [held EXCEPT ![c] = Last(payload)]
     /\ hasHeld' = [hasHeld EXCEPT ![c] = TRUE]
     /\ toSend' = [toSend EXCEPT ![c] = Front(payload)]
  /\ IF ~isCounted[c]
       THEN /\ heldCount' = heldCount + 1
            /\ isCounted' = [isCounted EXCEPT ![c] = TRUE]
            /\ pc' = [pc EXCEPT ![c] = "wspawn"]
       ELSE /\ pc' = [pc EXCEPT ![c] = "wsend"]
            /\ UNCHANGED <<heldCount, isCounted>>
  /\ UNCHANGED <<dialStartCount, dialInflight, aliveCount, fired, fireChAtom, fireChClosed,
                 notifyCh, kind, fireCh, closeCh, mu, wire, connClosed, broken, b, ret,
                 bg, fpc, wvars, hvars>>
  /\ Track
  /\ acct' = [acct EXCEPT ![c].inc = IF isCounted[c] THEN @ ELSE @ + 1]
  /\ UNCHANGED born

\* sc.owner.tryNotify(); go sc.waitForFire()
WriteSpawn(c) ==
  /\ pc[c] = "wspawn"
  /\ notifyCh' = tryNotify(notifyCh)
  /\ bg' = [bg EXCEPT ![c] = "waiting"]
  /\ pc' = [pc EXCEPT ![c] = "wsend"]
  /\ UNCHANGED <<dialStartCount, dialInflight, aliveCount, heldCount, fired, fireChAtom,
                 fireChClosed, cvars, b, toSend, ret, fpc, wvars, hvars>>
  /\ UNCHANGED <<metEver, metCheck>>
  /\ acct' = [acct EXCEPT ![c].spawn = @ + 1]
  /\ UNCHANGED born

\* Send N-1 bytes; a failed write returns (0, err); otherwise (len(b), nil).
\* The deferred Unlock runs on return.
WriteSend(c) ==
  /\ pc[c] = "wsend"
  /\ LET fails == Len(toSend[c]) > 0 /\ broken[c] IN
     /\ wire' = [wire EXCEPT ![c] = ConnWrite(@, toSend[c])]
     /\ Returned(c, b[c], IF fails THEN [n |-> 0, err |-> IOErr]
                                   ELSE [n |-> Len(b[c]), err |-> NoErr])
  /\ Forget(c)
  /\ mu' = [mu EXCEPT ![c] = FALSE]
  /\ pc' = [pc EXCEPT ![c] = "ready"]
  /\ UNCHANGED <<tvars, kind, fireCh, closeCh, held, hasHeld, isCounted, connClosed,
                 broken, bg, fpc, wvars, nsub, panicked>>
  /\ UNCHANGED <<metEver, metCheck>>
  /\ UNCHANGED <<born, acct>>

\* (mutant) the task waits on the transport's current channel, not on the
\* wrapper's snapshot.
BgFireCurrent(c) ==
  /\ bg[c] = "waiting" /\ fireChAtom \in fireChClosed
  /\ bg' = [bg EXCEPT ![c] = "release"]
  /\ UNCHANGED <<tvars, cvars, lvars, fpc, wvars, hvars>>
  /\ UNCHANGED <<metEver, metCheck>>
  /\ UNCHANGED <<born, acct>>

\* -- StraddleConn.waitForFire / release ------------------------------------
\* select: case <-sc.fireCh
BgFire(c) ==
  /\ bg[c] = "waiting" /\ fireCh[c] \in fireChClosed
  /\ bg' = [bg EXCEPT ![c] = "release"]
  /\ UNCHANGED <<tvars, cvars, lvars, fpc, wvars, hvars>>
  /\ UNCHANGED <<metEver, metCheck>>
  /\ UNCHANGED <<born, acct>>

\* select: case <-sc.closeCh
BgCancel(c) ==
  /\ bg[c] = "waiting" /\ closeCh[c]
  /\ bg' = [bg EXCEPT ![c] = "done"]
  /\ UNCHANGED <<tvars, cvars, lvars, fpc, wvars, hvars>>
  /\ UNCHANGED <<metEver, metCheck>>
  /\ UNCHANGED <<born, acct>>

\* (mutant) release clears hasHeld without writing the byte.
releaseDrops(c) ==
  /\ ~mu[c]
  /\ UNCHANGED wire
  /\ hasHeld' = [hasHeld EXCEPT ![c] = FALSE]

\* release: under sc.mu, write the withheld byte (its error is dropped).
release(c) ==
  /\ ~mu[c]
  /\ wire' = [wire EXCEPT ![c] =
                IF hasHeld[c] THEN ConnWrite(@, <<held[c]>>) ELSE @]
  /\ hasHeld' = [hasHeld EXCEPT ![c] = FALSE]

BgRelease(c) ==
  /\ bg[c] = "release"
  /\ release(c)
  /\ bg' = [bg EXCEPT ![c] = "done"]
  /\ UNCHANGED <<tvars, kind, fireCh, closeCh, held, isCounted, mu, connClosed, broken,
                 lvars, fpc, wvars, hvars>>
  /\ UNCHANGED <<metEver, metCheck>>
  /\ UNCHANGED <<born, acct>>

\* -- StraddleConn.Close -------------------------------------------------------
\* sc.mu.Lock(); if sc.isCounted: heldCount is decremented when fired is 0,
\* isCounted is cleared and closeCh is closed (once).  A raw connection has
\* no wrapper: Close is the net.Conn's.
CloseBegin(c) ==
  /\ pc[c] = "ready" /\ kind[c] # "none"
  /\ IF kind[c] = "raw"
       THEN /\ connClosed' = [connClosed EXCEPT ![c] = TRUE]
            /\ pc' = [pc EXCEPT ![c] = "closed"]
            /\ UNCHANGED <<heldCount, isCounted, closeCh, mu>>
       ELSE /\ ~mu[c]
            /\ mu' = [mu EXCEPT ![c] = TRUE]
            /\ UNCHANGED connClosed
            /\ IF isCounted[c]
                 THEN /\ heldCount' = IF fired = 0 THEN heldCount - 1 ELSE heldCount
                      /\ isCounted' = [isCounted EXCEPT ![c] = FALSE]
                      /\ closeCh' = [closeCh EXCEPT ![c] = TRUE]
                      /\ pc' = [pc EXCEPT ![c] = "cnotify"]
                 ELSE /\ pc' = [pc EXCEPT ![c] = "cflush"]
                      /\ UNCHANGED <<heldCount, isCounted, closeCh>>
  /\ UNCHANGED <<dialStartCount, dialInflight, aliveCount, fired, fireChAtom, fireChClosed,
                 notifyCh, kind, fireCh, held, hasHeld, wire, broken, b, toSend, ret,
                 bg, fpc, wvars, hvars>>
  /\ Track
  /\ acct' = [acct EXCEPT ![c].closes = @ + 1,
                           ![c].dec = IF kind[c] = "straddle" /\ isCounted[c] /\ fired = 0
                                        THEN @ + 1 ELSE @]
  /\ UNCHANGED born

\* (counted) sc.owner.tryNotify()
CloseNotify(c) ==
  /\ pc[c] = "cnotify"
  /\ notifyCh' = tryNotify(notifyCh)
  /\ pc' = [pc EXCEPT ![c] = "cflush"]
  /\ UNCHANGED <<dialStartCount, dialInflight, aliveCount, heldCount, fired, fireChAtom,
                 fireChClosed, cvars, b, toSend, ret, bg, fpc, wvars, hvars>>
  /\ UNCHANGED <<metEver, metCheck>>
  /\ UNCHANGED <<born, acct>>

\* (mutant) Close drops the withheld byte instead of flushing it.
CloseFlushDrops(c) ==
  /\ pc[c] = "cflush"
  /\ hasHeld' = [hasHeld EXCEPT ![c] = FALSE]
  /\ mu' = [mu EXCEPT ![c] = FALSE]
  /\ pc' = [pc EXCEPT ![c] = "calive"]
  /\ UNCHANGED <<tvars, kind, fireCh, closeCh, held, isCounted, wire, connClosed, broken,
                 b, toSend, ret, bg, fpc, wvars, hvars>>
  /\ UNCHANGED <<metEver, metCheck>>
  /\ UNCHANGED <<born, acct>>

\* Flush before closing (best effort); sc.mu.Unlock()
CloseFlush(c) ==
  /\ pc[c] = "cflush"
  /\ wire' = [wire EXCEPT ![c] =
                IF hasHeld[c] THEN ConnWrite(@, <<held[c]>>) ELSE @]
  /\ hasHeld' = [hasHeld EXCEPT ![c] = FALSE]
  /\ mu' = [mu EXCEPT ![c] = FALSE]
  /\ pc' = [pc EXCEPT ![c] = "calive"]
  /\ UNCHANGED <<tvars, kind, fireCh, closeCh, held, isCounted, connClosed, broken,
                 b, toSend, ret, bg, fpc, wvars, hvars>>
  /\ UNCHANGED <<metEver, metCheck>>
  /\ UNCHANGED <<born, acct>>

\* atomic.AddInt32(&sc.owner.aliveCount, -1)
CloseAlive(c) ==
  /\ pc[c] = "calive"
  /\ aliveCount' = aliveCount - 1
  /\ pc' = [pc EXCEPT ![c] = "cclose"]
  /\ UNCHANGED <<dialStartCount, dialInflight, heldCount, fired, fireChAtom, fireChClosed,
                 notifyCh, cvars, b, toSend, ret, bg, fpc, wvars, hvars>>
  /\ Track
  /\ UNCHANGED <<born, acct>>

\* sc.owner.tryNotify(); return sc.Conn.Close()
CloseConn(c) ==
  /\ pc[c] = "cclose"
  /\ notifyCh' = tryNotify(notifyCh)
  /\ connClosed' = [connClosed EXCEPT ![c] = TRUE]
  /\ pc' = [pc EXCEPT ![c] = "closed"]
  /\ UNCHANGED <<dialStartCount, dialInflight, aliveCount, heldCount, fired, fireChAtom,
                 fireChClosed, kind, fireCh, closeCh, held, hasHeld, isCounted, mu, wire,
                 broken, b, toSend, ret, bg, fpc, wvars, hvars>>
  /\ UNCHANGED <<metEver, metCheck>>
  /\ UNCHANGED <<born, acct>>

\* (mutant) Fire stores 1 without comparing, and goes on to close the channel.
FireStore(f) ==
  /\ fpc[f] = "idle"
  /\ fired' = 1
  /\ fpc' = [fpc EXCEPT ![f] = "close"]
  /\ UNCHANGED <<dialStartCount, dialInflight, aliveCount, heldCount, fireChAtom,
                 fireChClosed, notifyCh, cvars, lvars, bg, wvars, hvars>>
  /\ UNCHANGED <<metEver, metCheck>>
  /\ UNCHANGED <<born, acct>>

\* -- Transport.Fire ----------------------------------------------------------
\* atomic.CompareAndSwapInt32(&t.fired, 0, 1); a failed swap returns.
FireCAS(f) ==
  /\ fpc[f] = "idle"
  /\ IF fired = 0
       THEN /\ fired' = 1
            /\ fpc' = [fpc EXCEPT ![f] = "close"]
       ELSE /\ fpc' = [fpc EXCEPT ![f] = "done"]
            /\ UNCHANGED fired
  /\ UNCHANGED <<dialStartCount, dialInflight, aliveCount, heldCount, fireChAtom,
                 fireChClosed, notifyCh, cvars, lvars, bg, wvars, hvars>>
  /\ UNCHANGED <<metEver, metCheck>>
  /\ UNCHANGED <<born, acct>>

\* ch := t.fireChAtom.Load(); close(ch).  Closing a closed channel panics.
FireClose(f) ==
  /\ fpc[f] = "close"
  /\ fireChClosed' = fireChClosed \cup {fireChAtom}
  /\ panicked' = (panicked \/ fireChAtom \in fireChClosed)
  /\ fpc' = [fpc EXCEPT ![f] = "done"]
  /\ UNCHANGED <<dialStartCount, dialInflight, aliveCount, heldCount, fired, fireChAtom,
                 notifyCh, cvars, lvars, bg, wvars, nsub, nwr, accepted, firedAtCall, pre>>
  /\ UNCHANGED <<metEver, metCheck>>
  /\ UNCHANGED <<born, acct>>

\* -- Transport.Wait ----------------------------------------------------------
\* Wait(ctx, n): want <= 0 returns nil; otherwise the fast-path check starts.
WaitBegin(w, n) ==
  /\ wpc[w] = "idle"
  /\ want' = [want EXCEPT ![w] = n]
  /\ wpc' = [wpc EXCEPT ![w] = IF n <= 0 THEN "nil" ELSE "ld_start"]
  /\ UNCHANGED <<tvars, cvars, lvars, bg, fpc, rd, ctxDone, hvars>>
  /\ Track
  /\ UNCHANGED <<born, acct>>

\* check: start := atomic.LoadInt32(&t.dialStartCount)
WaitLoadStart(w) ==
  /\ wpc[w] = "ld_start"
  /\ rd' = [rd EXCEPT ![w].start = dialStartCount]
  /\ wpc' = [wpc EXCEPT ![w] = "ld_inflight"]
  /\ UNCHANGED <<tvars, cvars, lvars, bg, fpc, want, ctxDone, hvars>>
  /\ UNCHANGED <<metEver, metCheck>>
  /\ UNCHANGED <<born, acct>>

\* check: inflight := atomic.LoadInt32(&t.dialInflight)
WaitLoadInflight(w) ==
  /\ wpc[w] = "ld_inflight"
  /\ rd' = [rd EXCEPT ![w].inflight = dialInflight]
  /\ wpc' = [wpc EXCEPT ![w] = "ld_held"]
  /\ UNCHANGED <<tvars, cvars, lvars, bg, fpc, want, ctxDone, hvars>>
  /\ UNCHANGED <<metEver, metCheck>>
  /\ UNCHANGED <<born, acct>>

\* check: held := atomic.LoadInt32(&t.heldCount)
WaitLoadHeld(w) ==
  /\ wpc[w] = "ld_held"
  /\ rd' = [rd EXCEPT ![w].held = heldCount]
  /\ wpc' = [wpc EXCEPT ![w] = "ld_alive"]
  /\ UNCHANGED <<tvars, cvars, lvars, bg, fpc, want, ctxDone, hvars>>
  /\ UNCHANGED <<metEver, metCheck>>
  /\ UNCHANGED <<born, acct>>

\* check: alive := atomic.LoadInt32(&t.aliveCount)
WaitLoadAlive(w) ==
  /\ wpc[w] = "ld_alive"
  /\ rd' = [rd EXCEPT ![w].alive = aliveCount]
  /\ wpc' = [wpc EXCEPT ![w] = "decide"]
  /\ UNCHANGED <<tvars, cvars, lvars, bg, fpc, want, ctxDone, hvars>>
  /\ UNCHANGED <<metEver, metCheck>>
  /\ UNCHANGED <<born, acct>>

\* if check() { return nil }; otherwise (back) to the select of the slow path.
WaitDecide(w) ==
  /\ wpc[w] = "decide"
  /\ wpc' = [wpc EXCEPT ![w] = IF check(rd[w], want[w]) THEN "nil" ELSE "select"]
  /\ UNCHANGED <<tvars, cvars, lvars, bg, fpc, want, rd, ctxDone, hvars>>
  /\ UNCHANGED <<metEver, metCheck>>
  /\ UNCHANGED <<born, acct>>

\* select: case <-ctx.Done(): return the wrapped ctx.Err()
WaitCtxDone(w) ==
  /\ wpc[w] = "select" /\ ctxDone[w]
  /\ wpc' = [wpc EXCEPT ![w] = "err"]
  /\ UNCHANGED <<tvars, cvars, lvars, bg, fpc, want, rd, ctxDone, hvars>>
  /\ UNCHANGED <<metEver, metCheck>>
  /\ UNCHANGED <<born, acct>>

\* select: case <-t.notifyCh: check again
WaitNotified(w) ==
  /\ wpc[w] = "select" /\ notifyCh > 0
  /\ notifyCh' = notifyCh - 1
  /\ wpc' = [wpc EXCEPT ![w] = "ld_start"]
  /\ UNCHANGED <<dialStartCount, dialInflight, aliveCount, heldCount, fired, fireChAtom,
                 fireChClosed, cvars, lvars, bg, fpc, want, rd, ctxDone, hvars>>
  /\ UNCHANGED <<metEver, metCheck>>
  /\ UNCHANGED <<born, acct>>

\* The caller's context is cancelled or its deadline passes.
CtxCancel(w) ==
  /\ ~ctxDone[w] /\ wpc[w] \notin {"nil", "err"}
  /\ ctxDone' = [ctxDone EXCEPT ![w] = TRUE]
  /\ UNCHANGED <<tvars, cvars, lvars, bg, fpc, wpc, want, rd, hvars>>
  /\ UNCHANGED <<metEver, metCheck>>
  /\ UNCHANGED <<born, acct>>

\* -- Transport.Reset ---------------------------------------------------------
\* No call of Dial, Write, Close, Fire or Wait is in progress (Reset must be
\* called serially); background tasks may be.
Quiescent ==
  /\ \A c \in Conns : pc[c] \in {"new", "ready", "failed", "closed"}
  /\ \A f \in Firers : fpc[f] # "close"
  /\ \A w \in Waiters : wpc[w] \in {"idle", "nil", "err"}

\* Reset: store a fresh channel in fireChAtom, store 0 in heldCount,
\* aliveCount, dialStartCount, dialInflight and fired.  The six stores are one
\* step: no call that reads or writes them is in progress.
Reset ==
  /\ Quiescent /\ fireChAtom <= MaxResets
  /\ fireChAtom' = fireChAtom + 1
  /\ heldCount' = 0 /\ aliveCount' = 0 /\ dialStartCount' = 0 /\ dialInflight' = 0
  /\ fired' = 0
  /\ UNCHANGED <<fireChClosed, notifyCh, cvars, lvars, bg, fpc, wvars, hvars>>
  /\ UNCHANGED <<metEver, metCheck>>
  /\ UNCHANGED <<born, acct>>

\* -- the caller after Close --------------------------------------------------
\* Close has returned and the caller, who still has the wrapper, calls it
\* again (Write or Close), after the wrapper's background task has ended.
\* The closed net.Conn fails every write from now on.
Reuse(c) ==
  /\ pc[c] = "closed" /\ acct[c].closes < MaxCloses /\ bg[c] \in {"none", "done"}
  /\ pc' = [pc EXCEPT ![c] = "ready"]
  /\ broken' = [broken EXCEPT ![c] = TRUE]
  /\ UNCHANGED <<tvars, kind, fireCh, closeCh, held, hasHeld, isCounted, mu, wire,
                 connClosed, b, toSend, ret, bg, fpc, wvars, hvars>>
  /\ UNCHANGED <<metEver, metCheck>>
  /\ UNCHANGED <<born, acct>>

\* ------------------------------------------------------------ specifications
Dial(c) ==
  \/ DialBegin(c) \/ DialStart(c) \/ DialInflight(c) \/ DialDone(c)
  \/ DialFail(c) \/ WrapAlive(c) \/ WrapConn(c)

WriteCont(c) ==
  \/ WriteHot(c) \/ WriteLock(c) \/ WriteDoubleCheck(c)
  \/ WriteBuffer(c) \/ WriteSpawn(c) \/ WriteSend(c)

Write(c) == (\E n \in 0..MaxLen : WriteBegin(c, n)) \/ WriteCont(c)

waitForFire(c) == BgFire(c) \/ BgCancel(c) \/ BgRelease(c)

CloseCont(c) == CloseNotify(c) \/ CloseFlush(c) \/ CloseAlive(c) \/ CloseConn(c)

Close(c) == CloseBegin(c) \/ CloseCont(c)

Fire(f) == FireCAS(f) \/ FireClose(f)

WaitCont(w) ==
  \/ WaitLoadStart(w) \/ WaitLoadInflight(w) \/ WaitLoadHeld(w) \/ WaitLoadAlive(w)
  \/ WaitDecide(w) \/ WaitCtxDone(w) \/ WaitNotified(w)

Wait(w) == (\E n \in Wants : WaitBegin(w, n)) \/ WaitCont(w)

\* The life of one wrapper (or raw connection) while Fire is called from NFire
\* threads and the network may break the connection.
Next ==
  \/ \E c \in {1} : Dial(c) \/ Write(c) \/ waitForFire(c) \/ Close(c) \/ ConnBreak(c)
  \/ \E f \in Firers : Fire(f)

Spec == Init /\ [][Next]_vars

\* A wrapper's first Write call, of a non-empty slice.
WriteOnce(c) == nwr[c] = 0 /\ \E n \in 1..MaxLen : WriteBegin(c, n)

\* All connections of a round, each written once, and one Fire, on a network
\* that stays up, with no connection closed.  Once an operation has been called
\* the scheduler keeps running it (goroutines that can run do run); nothing
\* obliges a caller to call Write or Fire.
DialCont(c) ==
  \/ DialStart(c) \/ DialInflight(c) \/ DialDone(c) \/ DialFail(c)
  \/ WrapAlive(c) \/ WrapConn(c)

NextFair ==
  \/ \E c \in Conns : Dial(c) \/ WriteOnce(c) \/ WriteCont(c) \/ BgFire(c) \/ BgRelease(c)
  \/ \E f \in {1} : Fire(f)

Fairness ==
  /\ \A c \in Conns : WF_vars(DialCont(c)) /\ WF_vars(WriteCont(c))
                      /\ WF_vars(BgFire(c) \/ BgRelease(c))
  /\ WF_vars(FireClose(1))

SpecFair == Init /\ [][NextFair]_vars /\ Fairness

\* The connections of one round, each writing once and possibly closing, and
\* one caller of Wait; Fire is not called.
FirstWrite(c) ==
  \/ WriteOnce(c)
  \/ WriteLock(c) \/ WriteDoubleCheck(c) \/ WriteBuffer(c) \/ WriteSpawn(c) \/ WriteSend(c)

NextWait ==
  \/ \E c \in Conns : Dial(c) \/ FirstWrite(c) \/ BgCancel(c) \/ Close(c)
  \/ \E w \in {1} : Wait(w) \/ CtxCancel(w)

SpecWait == Init /\ [][NextWait]_vars

\* Rounds: all connections, each written once and closed once, the callers of
\* Fire, and Reset between rounds.  A connection dialed in one round may be
\* written and closed in a later one, or dialed only then.
NextRounds ==
  \/ \E c \in Conns : Dial(c) \/ WriteOnce(c) \/ WriteCont(c) \/ waitForFire(c) \/ Close(c)
  \/ \E f \in Firers : Fire(f)
  \/ Reset

SpecRounds == Init /\ [][NextRounds]_vars

\* The broadcast signal over the rounds: a connection of an earlier round and
\* one of a later round, each written once and left open, the callers of Fire
\* and Reset between rounds.
NextSignal ==
  \/ \E c \in {1, 2} : Dial(c) \/ WriteOnce(c) \/ WriteCont(c) \/ BgFire(c) \/ BgRelease(c)
  \/ \E f \in Firers : Fire(f)
  \/ Reset

SpecSignal == Init /\ [][NextSignal]_vars

\* Rounds with a caller of Wait(ctx, 1): connections dial and write once, Fire
\* ends a round, Reset starts the next.
WaitOne(w) == WaitBegin(w, 1) \/ WaitCont(w)

NextResetWait ==
  \/ \E c \in Conns : Dial(c) \/ WriteOnce(c) \/ WriteCont(c) \/ BgFire(c) \/ BgRelease(c)
  \/ \E f \in {1} : Fire(f)
  \/ Reset
  \/ \E w \in {1} : WaitOne(w) \/ CtxCancel(w)

SpecResetWait == Init /\ [][NextResetWait]_vars

\* One wrapper (or raw connection) written and closed in any order, Close and
\* Write called again after Close, and one caller of Fire.  Once an operation
\* has been called the scheduler keeps running it, and it runs the background
\* task; nothing obliges a caller to call Write, Close or Fire.
NextClose ==
  \/ \E c \in {1} : Dial(c) \/ Write(c) \/ waitForFire(c) \/ Close(c) \/ Reuse(c)
  \/ \E f \in {1} : Fire(f)

FairnessClose ==
  /\ \A c \in {1} : /\ WF_vars(DialCont(c)) /\ WF_vars(WriteCont(c))
                     /\ WF_vars(CloseCont(c)) /\ WF_vars(waitForFire(c))
  /\ WF_vars(FireClose(1))

SpecClose == Init /\ [][NextClose]_vars /\ FairnessClose

\* One connection, dialed and written once on a network that stays up, and
\* NWaiters concurrent callers of Wait(ctx, 1) whose contexts are never
\* cancelled; Fire, Close and Reset are not called.  Once an operation has
\* been called the scheduler keeps running it; a caller blocked in the select
\* runs again only when notifyCh holds a token.
WaitLive(w) ==
  \/ WaitBegin(w, 1)
  \/ WaitLoadStart(w) \/ WaitLoadInflight(w) \/ WaitLoadHeld(w) \/ WaitLoadAlive(w)
  \/ WaitDecide(w) \/ WaitNotified(w)

NextWaiters ==
  \/ \E c \in {1} : Dial(c) \/ FirstWrite(c)
  \/ \E w \in Waiters : WaitLive(w)

FairnessWaiters ==
  /\ \A c \in {1} : WF_vars(DialCont(c)) /\ WF_vars(WriteCont(c))
  /\ \A w \in Waiters : WF_vars(WaitCont(w))

SpecWaiters == Init /\ [][NextWaiters]_vars /\ FairnessWaiters

\* ===================================================================== claims

\* The same bytes, each as often: no byte missing, none twice (every byte
\* handed to Write on a connection is distinct).
SameBytes(s, t) == Len(s) = Len(t) /\ Range(s) = Range(t)

\* A step in which a Write call on c returns.
WriteReturns(c) == nwr'[c] = nwr[c] + 1

\* The argument of the Write call that returns in this step.
Arg(c) == IF pc[c] = "ready"
            THEN [i \in 1..(nsub'[c] - nsub[c]) |-> nsub[c] + i]
            ELSE b[c]

C2_FireReleasesAll ==
  \A c \in Conns :
    (fired = 1 /\ hasHeld[c]) ~> (~hasHeld[c] /\ held[c] \in Range(wire[c]))

\* Both wrappers released by their background tasks, none closed.
C2_Witness ==
  \A c \in Conns :
    /\ bg[c] = "done" /\ pc[c] = "ready" /\ ~closeCh[c]
    /\ ~hasHeld[c] /\ Len(wire[c]) >= 1 /\ held[c] = Last(wire[c])

\* C3: the bytes reach the underlying connection in the order they were
\* submitted to Write: the wire is a prefix of the concatenated arguments.
C3_InOrder ==
  \A c \in Conns : \A i \in 1..Len(wire[c]) : wire[c][i] = i

\* C4 (as claimed): a Write that finds the coordinator not fired writes the
\* previously withheld byte and all of b but its last byte, withholds b's last
\* byte and returns (len(b), nil); an empty Write returns (0, nil) and changes
\* nothing.
BufferedEffect(c) ==
  /\ wire'[c] = pre[c].wire \o (IF pre[c].hasHeld THEN <<pre[c].held>> ELSE <<>>) \o Front(b[c])
  /\ hasHeld'[c] /\ held'[c] = Last(b[c])

EmptyWrite(c) ==
  (pc[c] = "ready" /\ WriteReturns(c) /\ nsub'[c] = nsub[c]) =>
    /\ ret'[c] = [n |-> 0, err |-> NoErr]
    /\ UNCHANGED <<tvars, cvars, pc, bg>>

C4_Original ==
  [][\A c \in Conns :
       /\ (pc[c] = "wsend" /\ WriteReturns(c)) =>
            BufferedEffect(c) /\ ret'[c] = [n |-> Len(b[c]), err |-> NoErr]
       /\ EmptyWrite(c)]_vars

\* C4 (amended): the same, and the return is (len(b), nil) unless the
\* underlying write of the all-but-last bytes fails, when it is (0, err).
C4_BufferedWrite ==
  [][\A c \in Conns :
       /\ (pc[c] = "wsend" /\ WriteReturns(c)) =>
            /\ BufferedEffect(c)
            /\ ret'[c] = IF broken[c] /\ Len(toSend[c]) > 0
                           THEN [n |-> 0, err |-> IOErr]
                           ELSE [n |-> Len(b[c]), err |-> NoErr]
       /\ EmptyWrite(c)]_vars

\* A second buffering Write, of two bytes, about to return: the byte withheld
\* by the first Write goes out before its first byte.
C4_Witness ==
  /\ pc[1] = "wsend" /\ pre[1].hasHeld /\ Len(b[1]) = 2 /\ Len(toSend[1]) = 2
  /\ ~broken[1] /\ fired = 0

\* C5: a Write called after Fire hands all of b, unmodified, to the
\* underlying connection before it returns and withholds none of it, on a
\* wrapper as on a connection dialed after Fire.
C5_PassthroughAfterFire ==
  [][\A c \in Conns :
       (WriteReturns(c) /\ (IF pc[c] = "ready" THEN fired = 1 ELSE firedAtCall[c] = 1)) =>
         /\ wire'[c] = wire[c] \o Arg(c)
         /\ ~(hasHeld'[c] /\ held'[c] \in Range(Arg(c)))
         /\ (~broken[c] => ret'[c] = [n |-> Len(Arg(c)), err |-> NoErr])]_vars

\* A wrapper created before Fire, holding a byte, whose Write was called after
\* Fire and is about to forward its two bytes.
C5_Witness ==
  /\ kind[1] = "straddle" /\ pc[1] = "whot" /\ firedAtCall[1] = 1
  /\ Len(b[1]) = 2 /\ isCounted[1]

\* C6: over any number of sequential or concurrent Fire calls, fired goes from
\* 0 to 1 once and never back, the broadcast channel is closed once (never
\* twice: by the one caller that won the swap, before it returns), and a Fire
\* call that loses the swap changes nothing.
C6_FireOnce ==
  /\ [](~panicked)
  /\ [](Cardinality({f \in Firers : fpc[f] = "close"}) <= 1)
  /\ [](fired = 1 =>
         IF \E f \in Firers : fpc[f] = "close"
           THEN fireChClosed = {} ELSE fireChClosed = {fireChAtom})
  /\ [][fired = 1 => fired' = 1]_vars
  /\ [][\A f \in Firers :
          (fpc[f] = "idle" /\ fpc'[f] = "done") =>
            UNCHANGED <<tvars, cvars, lvars, bg, wvars, hvars>>]_vars

\* Two Fire calls have returned; the channel is closed.
C6_Witness ==
  /\ \A f \in Firers : fpc[f] = "done"
  /\ fired = 1 /\ fireChClosed = {fireChAtom}

\* A step in which a Wait call returns nil from its check.
WaitReturnsNil(w) == wpc[w] = "decide" /\ wpc'[w] = "nil"

\* Where the client thread of a connection is in its dial.
DialStarted == {c \in Conns : pc[c] # "new"}
DialUnsettled == {c \in Conns : pc[c] \in {"dstart", "dinflight", "dialing"}}
DialFailed == {c \in Conns : pc[c] \in {"dfail", "failed"}}
DialSucceeded == DialStarted \ (DialUnsettled \cup DialFailed)
CloseCalled == {c \in Conns : pc[c] \in {"cnotify", "cflush", "calive", "cclose", "closed"}}

\* C7: N dials started, none failed, no wrapper closed, Fire not called: when
\* Wait(ctx, N) returns nil, heldConnections == N at that instant.
C7_WaitReturnsAtQuorum ==
  [][\A w \in Waiters :
       ( /\ WaitReturnsNil(w)
         /\ want[w] >= 1 /\ Cardinality(DialStarted) = want[w]
         /\ DialFailed = {} /\ CloseCalled = {} /\ fired = 0 )
       => heldCount = want[w]]_vars

\* C8: N dials started and all settled, K < N of them succeeded, no survivor
\* closed: when Wait(ctx, N) returns nil, heldConnections ==
\* aliveConnections == K.
C8_WaitReturnsAtSurvivors ==
  [][\A w \in Waiters :
       ( /\ WaitReturnsNil(w)
         /\ want[w] >= 1 /\ Cardinality(DialStarted) = want[w]
         /\ DialUnsettled = {} /\ Cardinality(DialSucceeded) < want[w]
         /\ CloseCalled = {} /\ fired = 0 )
       => /\ heldCount = Cardinality(DialSucceeded)
          /\ aliveCount = Cardinality(DialSucceeded)]_vars

\* C9: the predicate Wait evaluates equals the documented quorum
\* (dialStarted >= want, dialInflight == 0, held >= want or held == alive) for
\* every combination of loaded counter values.
C9_CheckIsDocumentedQuorum ==
  \A w \in Waiters :
    wpc[w] = "decide" => (check(rd[w], want[w]) <=> QuorumDoc(rd[w], want[w]))

\* C10: Wait never returns nil for a quorum that was unmet at every instant of
\* the call.
C10_NilOnlyAtQuorum ==
  [][\A w \in Waiters : WaitReturnsNil(w) => metEver[w]]_vars

\* A step of Reset.
ResetStep == fireChAtom' # fireChAtom

\* The connections whose dial began in the current round.
ThisRound == {c \in Conns : born[c].round = fireChAtom}

\* The round before the current one was fired.
AfterFiredRound == fireChAtom > 1 /\ (fireChAtom - 1) \in fireChClosed

\* C11: after a fired round, Reset zeroes the four counters, clears fired and installs a fresh,
\* untriggered broadcast channel; a Wait(ctx, 1) issued after the Reset returns
\* nil only when a dial of the new round has started and completed; and a
\* wrapper dialed in the new round withholds the last byte of a Write that
\* runs while the round is not fired.
C11_ResetRearms ==
  /\ [][(ResetStep /\ fired = 1) =>
          /\ dialStartCount' = 0 /\ dialInflight' = 0 /\ aliveCount' = 0 /\ heldCount' = 0
          /\ fired' = 0
          /\ fireChAtom' \notin fireChClosed' \cup {fireChAtom}]_vars
  /\ [][\A w \in Waiters :
          (WaitReturnsNil(w) /\ want[w] = 1 /\ AfterFiredRound) =>
            \E c \in ThisRound : c \in DialStarted \ DialUnsettled]_vars
  /\ [][\A c \in ThisRound :
          ( /\ AfterFiredRound /\ kind[c] = "straddle" /\ pc[c] # "ready"
            /\ WriteReturns(c) /\ firedAtCall[c] = 0 /\ fired = 0 ) =>
            /\ hasHeld'[c] /\ held'[c] = Last(b[c])
            /\ held'[c] \notin Range(wire'[c])]_vars

\* C12: while fired is 0, heldCount <= aliveCount, whatever the interleaving of
\* Dial, Write, Close, Fire and (serial) Reset.
C12_HeldAtMostAlive == fired = 0 => heldCount <= aliveCount

\* C13: a wrapper contributes 0 or 1 to heldCount; over any sequence of Write
\* and Close calls heldCount is incremented for it at most once and at most
\* one background task is spawned for it.
C13_CountedOnce ==
  \A c \in Conns :
    /\ acct[c].inc - acct[c].dec \in {0, 1}
    /\ acct[c].inc <= 1
    /\ acct[c].spawn <= 1

\* A step in which Close is called on the wrapper c.
CloseCalls(c) == kind[c] = "straddle" /\ acct'[c].closes = acct[c].closes + 1

\* C14: Close of a wrapper counted as held, in a round not fired, takes
\* exactly 1 from heldCount; Close of a wrapper whose round was fired leaves
\* heldCount as it is; and the Close calls on one wrapper take from heldCount
\* at most once.
C14_CloseDecrementsOnce ==
  [][\A c \in Conns :
       CloseCalls(c) =>
         /\ (isCounted[c] /\ fired = 0 /\ fireCh[c] \notin fireChClosed)
              => heldCount' = heldCount - 1
         /\ fireCh[c] \in fireChClosed => heldCount' = heldCount
         /\ heldCount' # heldCount => acct[c].dec = 0]_vars

\* C15: the background task of a wrapper that has been closed ends: a task that
\* waits while closeCh is closed, or that exists when Close has completed,
\* reaches its end; a task never waits on a wrapper whose Close has completed
\* with closeCh open; and a Close that signals cancellation a second time
\* (closeCh already closed) neither panics nor blocks: it goes on and returns.
C15_TaskEnds ==
  /\ \A c \in Conns : (bg[c] = "waiting" /\ closeCh[c]) ~> bg[c] = "done"
  /\ \A c \in Conns : (connClosed[c] /\ bg[c] # "none") ~> bg[c] = "done"
  /\ [](\A c \in Conns : (connClosed[c] /\ bg[c] = "waiting") => closeCh[c])
  /\ [][\A c \in Conns :
          (CloseCalls(c) /\ isCounted[c] /\ closeCh[c]) =>
            closeCh'[c] /\ ~panicked' /\ pc'[c] = "cnotify"]_vars
  /\ \A c \in Conns : pc[c] = "cnotify" ~> pc[c] = "closed"

\* The state of every connection but c is left as it is.
OthersUnchanged(c) ==
  \A d \in Conns \ {c} :
    /\ pc'[d] = pc[d] /\ kind'[d] = kind[d] /\ wire'[d] = wire[d]
    /\ hasHeld'[d] = hasHeld[d] /\ held'[d] = held[d] /\ isCounted'[d] = isCounted[d]
    /\ bg'[d] = bg[d] /\ connClosed'[d] = connClosed[d]

\* C16: a tracked dial that fails takes back its own 1 from dialInflight and
\* leaves dialStartCount, aliveCount and heldCount as they are, sends a
\* notification and returns the error with no wrapper created; the other
\* connections are untouched; dialInflight is the number of attempts between
\* their increment and their decrement (0 once every attempt has completed) and
\* dialStartCount still counts the failed attempts.
C16_DialFailure ==
  /\ [][\A c \in Conns :
          (pc[c] = "dialing" /\ pc'[c] = "dfail") =>
            /\ dialInflight' = dialInflight - 1
            /\ UNCHANGED <<dialStartCount, aliveCount, heldCount>>
            /\ OthersUnchanged(c)]_vars
  /\ [][\A c \in Conns :
          (pc[c] = "dfail" /\ pc'[c] = "failed") =>
            /\ notifyCh' = tryNotify(notifyCh) /\ notifyCh' >= 1
            /\ UNCHANGED <<dialStartCount, dialInflight, aliveCount, heldCount>>
            /\ OthersUnchanged(c)]_vars
  /\ [](\A c \in Conns :
          pc[c] \in {"dfail", "failed"} =>
            kind[c] = "none" /\ ~isCounted[c] /\ ~hasHeld[c] /\ bg[c] = "none")
  /\ [](dialInflight = Cardinality({c \in Conns : pc[c] = "dialing"}))
  /\ [](dialStartCount =
          Cardinality({c \in Conns : born[c].round > 0 /\ born[c].fired = 0
                                     /\ pc[c] # "dstart"}))

\* One tracked dial has failed and returned, the other has succeeded and its
\* wrapper holds a byte.
C16_Witness ==
  /\ pc[1] = "failed" /\ born[1].fired = 0
  /\ pc[2] = "ready" /\ kind[2] = "straddle" /\ hasHeld[2]
  /\ dialStartCount = 2 /\ dialInflight = 0 /\ aliveCount = 1 /\ notifyCh = 1

\* A step of the client thread of connection c.
ClientStep(c) == pc'[c] # pc[c] \/ nwr'[c] # nwr[c]

\* C17: a dial that begins while fired is set, and every later call on the
\* connection it yields (Close included), leaves the four counters as they
\* are; the connection is no wrapper: it withholds nothing, is never counted
\* and has no background task, and a Write hands it all of its bytes.
C17_FiredDialBypasses ==
  /\ [][\A c \in Conns :
          (born'[c].fired = 1 /\ ClientStep(c)) =>
            /\ UNCHANGED <<dialStartCount, dialInflight, aliveCount, heldCount>>
            /\ (WriteReturns(c) => wire'[c] = wire[c] \o Arg(c))]_vars
  /\ [](\A c \in Conns :
          born[c].fired = 1 =>
            /\ kind[c] \in {"none", "raw"}
            /\ ~hasHeld[c] /\ ~isCounted[c] /\ bg[c] = "none")

\* A connection dialed after Fire, written and closed.
C17_Witness ==
  /\ born[1].fired = 1 /\ kind[1] = "raw" /\ pc[1] = "closed" /\ Len(wire[1]) >= 2
  /\ dialStartCount = 0 /\ aliveCount = 0

\* C18: the four counters are never negative, Close calls on wrappers of an
\* earlier round after a Reset included.
C18_CountersNonNegative ==
  dialStartCount >= 0 /\ dialInflight >= 0 /\ aliveCount >= 0 /\ heldCount >= 0

\* C19: a wrapper's fireCh is the channel that was current when it was created
\* and never changes; Fire closes the current channel only and Reset closes
\* none and touches no wrapper; so a task is released only by the channel of
\* its wrapper's own round: not by the Fire of a later round, and not by the
\* closed channel of an earlier one.
C19_OwnSignal ==
  /\ [](\A c \in Conns : kind[c] = "straddle" => fireCh[c] = born[c].round)
  /\ [][\A c \in Conns : kind[c] = "straddle" => fireCh'[c] = fireCh[c]]_vars
  /\ [][fireChClosed' # fireChClosed =>
          fireChClosed' = fireChClosed \cup {fireChAtom}]_vars
  /\ [][ResetStep => UNCHANGED <<fireChClosed, cvars, bg>>]_vars
  /\ [][\A c \in Conns :
          (bg[c] = "waiting" /\ bg'[c] = "release") => born[c].round \in fireChClosed]_vars

\* The second round has been fired and its wrapper released by its task, while
\* a wrapper of the first round, which was not fired, still holds its byte
\* and its task still waits.
C19_Witness ==
  /\ fireChAtom = 2 /\ fireChClosed = {2}
  /\ born[1].round = 1 /\ hasHeld[1] /\ bg[1] = "waiting"
  /\ born[2].round = 2 /\ ~hasHeld[2] /\ bg[2] = "done" /\ Len(wire[2]) >= 1 /\ ~closeCh[2]

\* C20: when Wait(ctx, want > 0) returns nil, the predicate of check was true
\* of the four counters, as they actually were, at one instant of the call.
C20_CheckAtOneInstant ==
  [][\A w \in Waiters :
       (WaitReturnsNil(w) /\ want[w] > 0) => metCheck[w]]_vars

\* C22: a buffering Write whose underlying write of the all-but-last bytes
\* fails returns (0, err) and leaves no trace in the count: when it is the
\* wrapper's first call, the wrapper is not counted as held, heldCount was not
\* incremented for it and no background task was started.
C22_FailedWriteNotCounted ==
  [][\A c \in Conns :
       (pc[c] = "wsend" /\ WriteReturns(c) /\ broken[c] /\ Len(toSend[c]) > 0) =>
         /\ ret'[c] = [n |-> 0, err |-> IOErr]
         /\ (nwr[c] = 0 /\ acct[c].closes = 0) =>
              /\ ~isCounted'[c] /\ acct'[c].inc = 0
              /\ acct'[c].spawn = 0 /\ bg'[c] = "none"]_vars

\* C21: with two or more concurrent callers of Wait whose contexts are never
\* cancelled, a caller for which the quorum predicate (check) becomes true and
\* stays true eventually returns nil.
C21_AllWaitersReturn ==
  \A w \in Waiters :
    <>[](wpc[w] # "idle" /\ check(Counters, want[w])) => <>(wpc[w] = "nil")
====
